---- MODULE Spec2Model ----
(***************************************************************************)
(* Sliding-window rate limiter of src/main.py: the RateLimiter class, the  *)
(* check_rate_limit dependency and the /protected and /status handlers.    *)
(*                                                                         *)
(* Time is counted in ticks, Res ticks to the second, so that time.time()  *)
(* can return instants between whole seconds and int() has something to    *)
(* truncate.  Values the code passes through int() are whole seconds.      *)
(***************************************************************************)
EXTENDS Integers, Sequences, FiniteSets, TLC

VARIABLES
    requests,   \* rate_limiter.requests: client_ip -> list of request times
    now,        \* what time.time() returns, in ticks
    pc,         \* per request task: where its coroutine stands
    frame,      \* per request task: the locals of its coroutine, and the
                \* response it built
    admitted,   \* history: per client_ip, the times of the requests admitted
                \* in the window that ends now
    last        \* history: per client_ip, the verdict, requests_remaining
                \* and reset_time that is_allowed returned last

vars == <<requests, now, pc, frame, admitted, last>>

(***************************************************************************)
(* Bounds of the model.                                                    *)
(***************************************************************************)
Res == 2            \* clock ticks per second

(***************************************************************************)
(* Program constants.                                                      *)
(***************************************************************************)
max_requests == 5
time_window == 60

Window == time_window * Res     \* time_window in ticks

Keys == {"", "a"}               \* request.client.host values
Tasks == {"t1", "t2"}          \* request tasks on the event loop

\* The instants at which the clock is read: time 0, the tick after it, the
\* tick before one window has passed, the window boundary, and a second
\* past it.
Instants == {0, 1, Window - 1, Window, Window + Res}

None == <<>>                    \* Python's None
Some(v) == <<v>>

\* int(x) for a float x given in ticks: truncation toward zero, in seconds.
int(x) == IF x >= 0 THEN x \div Res ELSE -((-x) \div Res)

max(a, b) == IF a >= b THEN a ELSE b

RECURSIVE min(_)
min(s) == IF Len(s) = 1 THEN s[1]
          ELSE LET m == min(Tail(s)) IN IF s[1] <= m THEN s[1] ELSE m

\* defaultdict(list).__getitem__: the stored list, or a fresh empty one.
Get(reqs, client_ip) ==
    IF client_ip \in DOMAIN reqs THEN reqs[client_ip] ELSE <<>>

\* Variant: one list shared by every key.
Put_shared(reqs, client_ip, value) ==
    [k \in DOMAIN reqs \cup {client_ip} |-> value]

\* The mapping after requests[client_ip] = value.
Put(reqs, client_ip, value) ==
    [k \in DOMAIN reqs \cup {client_ip} |->
        IF k = client_ip THEN value ELSE reqs[k]]

\* The mapping after defaultdict's __missing__ ran for client_ip.
Touch(reqs, client_ip) == Put(reqs, client_ip, Get(reqs, client_ip))

\* Variant: fixed windows aligned to multiples of the window, not sliding.
active_fixed(request_times, current_time) ==
    LET window_start == current_time - (current_time % Window)
        keep(req_time) == req_time >= window_start
    IN  SelectSeq(request_times, keep)

\* Variant: nothing is ever pruned.
active_none(request_times, current_time) == request_times

\* [req_time for req_time in request_times if req_time > cutoff_time]
active(request_times, current_time) ==
    LET cutoff_time == current_time - Window
        keep(req_time) == req_time > cutoff_time
    IN  SelectSeq(request_times, keep)

\* Variant: the capacity check with <= for <.
under_limit_le(current_request_count) == current_request_count <= max_requests

\* The capacity check of is_allowed.
under_limit(current_request_count) == current_request_count < max_requests

\* retry_after of a denial, before the floor.
retry_after(oldest_request, current_time) ==
    int((oldest_request + Window) - current_time)

\* Variant: no floor.
retry_floor_none(r) == r

\* The floor applied to retry_after.
retry_floor(r) == max(1, r)

\* Variant: requests_remaining counted before the request is recorded.
allowed_info_before(current_request_count, current_time) ==
    [allowed |-> TRUE,
     requests_made |-> current_request_count + 1,
     requests_remaining |-> max_requests - current_request_count,
     reset_time |-> int(current_time + Window),
     retry_after |-> None]

\* Variant: reset_time counted from the start of the list's window, not
\* from the request.
allowed_info_no_window(current_request_count, current_time) ==
    [allowed |-> TRUE,
     requests_made |-> current_request_count + 1,
     requests_remaining |-> max_requests - (current_request_count + 1),
     reset_time |-> int(current_time),
     retry_after |-> None]

\* The rate_limit_info of an admitted request.
allowed_info(current_request_count, current_time) ==
    [allowed |-> TRUE,
     requests_made |-> current_request_count + 1,
     requests_remaining |-> max_requests - (current_request_count + 1),
     reset_time |-> int(current_time + Window),
     retry_after |-> None]

\* The result of a call that ended in ValueError: min() of an empty list.
ValueError == [error |-> "ValueError"]
raised_error(info) == "error" \in DOMAIN info

\* Variant: the first stored entry is taken for the oldest.
denied_info_first(request_times, current_request_count, current_time) ==
    IF request_times = <<>> THEN ValueError
    ELSE LET oldest_request == request_times[1] IN
        [allowed |-> FALSE,
         requests_made |-> current_request_count,
         requests_remaining |-> 0,
         reset_time |-> int(oldest_request + Window),
         retry_after |->
            Some(retry_floor(retry_after(oldest_request, current_time)))]

\* The rate_limit_info of a denied request.
denied_info(request_times, current_request_count, current_time) ==
    IF request_times = <<>> THEN ValueError
    ELSE LET oldest_request == min(request_times) IN
        [allowed |-> FALSE,
         requests_made |-> current_request_count,
         requests_remaining |-> 0,
         reset_time |-> int(oldest_request + Window),
         retry_after |->
            Some(retry_floor(retry_after(oldest_request, current_time)))]

\* Variant: the count is taken from the list as it was before pruning.
prune_count_before(reqs, client_ip, current_time) ==
    LET pruned == active(Get(reqs, client_ip), current_time)
    IN  [requests |-> Put(reqs, client_ip, pruned),
         current_request_count |-> Len(Get(reqs, client_ip))]

\* is_allowed up to the capacity check: the mapping with the pruned list
\* written back, and the count the check reads.
prune(reqs, client_ip, current_time) ==
    LET pruned == active(Get(reqs, client_ip), current_time)
    IN  [requests |-> Put(reqs, client_ip, pruned),
         current_request_count |-> Len(pruned)]

\* Variant: the admitted request is inserted at the head of the list.
decide_prepend(reqs, client_ip, current_time, current_request_count) ==
    IF under_limit(current_request_count)
    THEN [requests |->
            Put(reqs, client_ip, <<current_time>> \o Get(reqs, client_ip)),
          info |-> allowed_info(current_request_count, current_time)]
    ELSE [requests |-> reqs,
          info |-> denied_info(Get(reqs, client_ip), current_request_count,
                               current_time)]

\* is_allowed from the capacity check on: the mapping it leaves and the
\* info it returns.
decide(reqs, client_ip, current_time, current_request_count) ==
    IF under_limit(current_request_count)
    THEN [requests |->
            Put(reqs, client_ip, Append(Get(reqs, client_ip), current_time)),
          info |-> allowed_info(current_request_count, current_time)]
    ELSE [requests |-> reqs,
          info |-> denied_info(Get(reqs, client_ip), current_request_count,
                               current_time)]

\* RateLimiter.is_allowed run from start to end.
is_allowed(reqs, client_ip, current_time) ==
    LET p == prune(reqs, client_ip, current_time)
    IN  decide(p.requests, client_ip, current_time, p.current_request_count)

\* Variant: the status query counts every stored entry, expired or not.
status_info_unpruned(request_times, current_time) ==
    LET active_requests == request_times
        remaining_requests == max_requests - Len(active_requests)
        reset_time == IF active_requests # <<>>
                      THEN int(min(active_requests) + Window)
                      ELSE int(current_time + Window)
    IN  [max_requests |-> max_requests,
         time_window |-> time_window,
         requests_made |-> Len(active_requests),
         requests_remaining |-> max(0, remaining_requests),
         reset_time |-> reset_time,
         window_resets_in |-> max(0, reset_time - int(current_time))]

\* The "rate_limit" object rate_limit_status returns.
status_info(request_times, current_time) ==
    LET active_requests == active(request_times, current_time)
        remaining_requests == max_requests - Len(active_requests)
        reset_time == IF active_requests # <<>>
                      THEN int(min(active_requests) + Window)
                      ELSE int(current_time + Window)
    IN  [max_requests |-> max_requests,
         time_window |-> time_window,
         requests_made |-> Len(active_requests),
         requests_remaining |-> max(0, remaining_requests),
         reset_time |-> reset_time,
         window_resets_in |-> max(0, reset_time - int(current_time))]

NoInfo == [pending |-> TRUE]
NoResponse == [status |-> 0]
NoFrame == [client_ip |-> "", current_time |-> 0, request_times |-> <<>>,
            current_request_count |-> 0, rate_info |-> NoInfo,
            response |-> NoResponse]

\* History: an admission at time t is added; max_requests + 1 of them are
\* enough to tell that the quota was exceeded.
Record(hist, t) ==
    LET h == Append(hist, t)
    IN  IF Len(h) > max_requests + 1 THEN Tail(h) ELSE h

\* History: the admissions in the interval (t - Window, t].
InWindow(hist, t) ==
    LET in(a) == t - Window < a /\ a <= t
    IN  SelectSeq(hist, in)

Init ==
    /\ requests = [k \in {} |-> <<>>]
    /\ now = 0
    /\ pc = [t \in Tasks |-> "idle"]
    /\ frame = [t \in Tasks |-> NoFrame]
    /\ admitted = [k \in Keys |-> <<>>]
    /\ last = [k \in Keys |-> NoInfo]

\* Variant: handlers run on threads that preempt each other anywhere.
may_run_any(task) == TRUE

\* The event loop runs one coroutine at a time and switches only at an
\* await that suspends; check_rate_limit, is_allowed and the handlers hold
\* none, so a request that started runs to its response.
may_run(task) == \A other \in Tasks \ {task} : pc[other] = "idle"

\* Variant: the dependency returns rate_info whatever the verdict.
check_rate_limit_pass(rate_info) ==
    IF raised_error(rate_info) THEN "error" ELSE "endpoint"

\* Where check_rate_limit sends the request once is_allowed returned: it
\* raises HTTPException(429) on a denial and returns rate_info to the
\* endpoint otherwise.
check_rate_limit(rate_info) ==
    IF raised_error(rate_info) THEN "error"
    ELSE IF ~rate_info.allowed THEN "raised"
    ELSE "endpoint"

\* check_rate_limit up to is_allowed's capacity check: lines 70-71, 26-36.
IsAllowedPrune(task, client_ip) ==
    /\ pc[task] = "idle"
    /\ may_run(task)
    /\ LET p == prune(requests, client_ip, now) IN
        /\ requests' = p.requests
        /\ frame' = [frame EXCEPT ![task] =
                        [NoFrame EXCEPT
                            !.client_ip = client_ip,
                            !.current_time = now,
                            !.request_times = Get(requests, client_ip),
                            !.current_request_count = p.current_request_count]]
    /\ pc' = [pc EXCEPT ![task] = "decide"]
    /\ UNCHANGED <<now, admitted, last>>

\* is_allowed's decision and check_rate_limit's raise or return.
IsAllowedDecide(task) ==
    /\ pc[task] = "decide"
    /\ may_run(task)
    /\ LET f == frame[task]
           r == decide(requests, f.client_ip, f.current_time,
                       f.current_request_count)
       IN  /\ requests' = r.requests
           /\ frame' = [frame EXCEPT ![task].rate_info = r.info]
           /\ pc' = [pc EXCEPT ![task] = check_rate_limit(r.info)]
           /\ admitted' =
                IF ~raised_error(r.info) /\ r.info.allowed
                THEN [admitted EXCEPT ![f.client_ip] = Record(@, f.current_time)]
                ELSE admitted
           /\ last' =
                IF raised_error(r.info) THEN last
                ELSE [last EXCEPT ![f.client_ip] =
                        [allowed |-> r.info.allowed,
                         requests_remaining |-> r.info.requests_remaining,
                         reset_time |-> r.info.reset_time]]
    /\ UNCHANGED now

\* protected_endpoint: the handler body, run with the dependency's result.
ProtectedEndpoint(task) ==
    /\ pc[task] = "endpoint"
    /\ may_run(task)
    /\ frame' = [frame EXCEPT ![task].response =
                    [status |-> 200, route |-> "/protected",
                     client_ip |-> frame[task].client_ip,
                     rate_limit_info |-> frame[task].rate_info]]
    /\ pc' = [pc EXCEPT ![task] = "sent"]
    /\ UNCHANGED <<requests, now, admitted, last>>

\* rate_limit_handler: the 429 response built from the HTTPException that
\* check_rate_limit raised.
RateLimitHandler(task) ==
    /\ pc[task] = "raised"
    /\ may_run(task)
    /\ LET rate_info == frame[task].rate_info IN
       frame' = [frame EXCEPT ![task].response =
                    [status |-> 429, route |-> "/protected",
                     client_ip |-> frame[task].client_ip,
                     rate_limit_info |-> rate_info,
                     headers |->
                        [limit |-> max_requests,
                         remaining |-> rate_info.requests_remaining,
                         reset |-> rate_info.reset_time,
                         retry_after |-> rate_info.retry_after]]]
    /\ pc' = [pc EXCEPT ![task] = "sent"]
    /\ UNCHANGED <<requests, now, admitted, last>>

\* Variant: the status query records itself as a request.
status_store_consume(reqs, client_ip, current_time) ==
    Put(reqs, client_ip, Append(Get(reqs, client_ip), current_time))

\* What rate_limit_status leaves in the mapping: the entry that reading
\* requests[client_ip] creates, and nothing else (active_requests is a local).
status_store(reqs, client_ip, current_time) == Touch(reqs, client_ip)

\* rate_limit_status: the /status handler.
RateLimitStatus(task, client_ip) ==
    /\ pc[task] = "idle"
    /\ may_run(task)
    /\ requests' = status_store(requests, client_ip, now)
    /\ frame' = [frame EXCEPT ![task] =
                    [NoFrame EXCEPT
                        !.client_ip = client_ip,
                        !.current_time = now,
                        !.request_times = Get(requests, client_ip),
                        !.response =
                            [status |-> 200, route |-> "/status",
                             client_ip |-> client_ip,
                             rate_limit |->
                                status_info(Get(requests, client_ip), now),
                             timestamp |-> now]]]
    /\ pc' = [pc EXCEPT ![task] = "sent"]
    /\ UNCHANGED <<now, admitted, last>>

\* The response leaves and the task ends.
Done(task) ==
    /\ pc[task] = "sent"
    /\ pc' = [pc EXCEPT ![task] = "idle"]
    /\ frame' = [frame EXCEPT ![task] = NoFrame]
    /\ UNCHANGED <<requests, now, admitted, last>>

\* The clock moves forward.  A request reads it once, when it starts, so
\* its advance is taken between requests.
Tick(t) ==
    /\ \A task \in Tasks : pc[task] = "idle"
    /\ t > now
    /\ now' = t
    /\ admitted' = [k \in Keys |-> InWindow(admitted[k], t)]
    /\ UNCHANGED <<requests, pc, frame, last>>

Next ==
    \/ \E task \in Tasks, client_ip \in Keys : IsAllowedPrune(task, client_ip)
    \/ \E task \in Tasks : IsAllowedDecide(task)
    \/ \E task \in Tasks : ProtectedEndpoint(task)
    \/ \E task \in Tasks : RateLimitHandler(task)
    \/ \E task \in Tasks, client_ip \in Keys : RateLimitStatus(task, client_ip)
    \/ \E task \in Tasks : Done(task)
    \/ \E t \in Instants : Tick(t)

Spec == Init /\ [][Next]_vars

\* The wall clock is set back: time.time() is not monotonic.
ClockBack(t) ==
    /\ \A task \in Tasks : pc[task] = "idle"
    /\ t < now
    /\ now' = t
    /\ admitted' = [k \in Keys |-> InWindow(admitted[k], t)]
    /\ UNCHANGED <<requests, pc, frame, last>>

\* The requests of one client under a wall clock that moves both ways.
\* (The lists of different clients do not interact, and out of order they
\* are too many to enumerate for two clients.)
NextJump ==
    \/ \E task \in Tasks : IsAllowedPrune(task, "a")
    \/ \E task \in Tasks : IsAllowedDecide(task)
    \/ \E task \in Tasks : ProtectedEndpoint(task)
    \/ \E task \in Tasks : RateLimitHandler(task)
    \/ \E task \in Tasks : RateLimitStatus(task, "a")
    \/ \E task \in Tasks : Done(task)
    \/ \E t \in Instants : Tick(t)
    \/ \E t \in Instants : ClockBack(t)

SpecJump == Init /\ [][NextJump]_vars

(***************************************************************************)
(* Properties.                                                             *)
(***************************************************************************)

\* The task holds the result is_allowed just returned.
Returned(task) == pc[task] \in {"endpoint", "raised"}

\* How many entries of seq equal t.
Count(seq, t) == Cardinality({i \in DOMAIN seq : seq[i] = t})

\* The sequence of n entries, all equal to t.
Repeat(t, n) == [i \in 1..n |-> t]

\* How many requests of the task's key were admitted at the instant of the
\* task's call, before that call.
AdmittedBefore(task) ==
    LET f == frame[task]
    IN  Count(admitted[f.client_ip], f.current_time)
            - (IF f.rate_info.allowed THEN 1 ELSE 0)

\* C1 (capacity): a call made at an instant at which max_requests requests
\* of its key were already admitted is denied.
C1_Capacity ==
    \A task \in Tasks :
        Returned(task) /\ AdmittedBefore(task) >= max_requests
            => ~frame[task].rate_info.allowed

\* C1 witness: a call is denied at the instant max_requests were admitted.
C1_Witness ==
    \E task \in Tasks :
        /\ pc[task] = "raised"
        /\ AdmittedBefore(task) = max_requests
        /\ ~frame[task].rate_info.allowed

\* C2 (sliding-window quota): the requests of a key admitted in the window
\* that ends now, (now - Window, now], are at most max_requests.
C2_WindowQuota ==
    \A k \in Keys : Len(InWindow(admitted[k], now)) <= max_requests

\* C2 witness: the quota is used up by admissions at two different
\* instants, after the clock advanced and /status was queried.
C2_Witness ==
    \E k \in Keys, task \in Tasks :
        /\ Len(InWindow(admitted[k], now)) = max_requests
        /\ admitted[k][1] < admitted[k][max_requests]
        /\ pc[task] = "sent" /\ frame[task].response.route = "/status"

\* C3 (sliding eviction): a call that finds max_requests stored timestamps
\* of which the oldest is older than the window is admitted; when all of
\* them were recorded at time 0 and the call is made one second after the
\* window, it is admitted with requests_made = 1.
C3_SlidingEviction ==
    \A task \in Tasks :
        Returned(task) =>
            LET f == frame[task] IN
            /\ Len(f.request_times) = max_requests
                    /\ min(f.request_times) + Window < f.current_time
                => f.rate_info.allowed
            /\ f.request_times = Repeat(0, max_requests)
                    /\ f.current_time = Window + Res
                => f.rate_info.allowed /\ f.rate_info.requests_made = 1

\* C3 witness: Scenario B, the call at window + 1 second after five
\* admissions at time 0.
C3_Witness ==
    \E task \in Tasks :
        /\ pc[task] = "endpoint"
        /\ frame[task].request_times = Repeat(0, max_requests)
        /\ frame[task].current_time = Window + Res
        /\ frame[task].rate_info.requests_made = 1

\* The step is one of task's, of a request of key k.
StepOf(task, k) ==
    /\ pc'[task] # pc[task]
    /\ k = (IF pc'[task] = "idle" THEN frame[task] ELSE frame'[task]).client_ip

\* The instants at which a later call can read the clock.
Later == {t \in Instants : t >= now}

\* What a caller can learn about key k from the mapping reqs: the stored
\* list and the results of is_allowed and of the status query at any later
\* instant.
View(reqs, k) ==
    [stored |-> Get(reqs, k),
     evaluate |-> [t \in Later |-> is_allowed(reqs, k, t).info],
     peek |-> [t \in Later |-> status_info(Get(reqs, k), t)]]

\* C4 (key independence): a step of a request of key A leaves the stored
\* list of every other key B unchanged, and with it the result of any later
\* is_allowed or status call for B.
C4_KeyIndependence ==
    [][\A task \in Tasks, A \in Keys, B \in Keys :
          StepOf(task, A) /\ B # A => View(requests', B) = View(requests, B)]_vars

\* C4 witness: Scenario D, key A is denied while key B was exhausted and
\* denied before.
C4_Witness ==
    \E task \in Tasks, B \in Keys :
        /\ pc[task] = "raised"
        /\ B # frame[task].client_ip
        /\ last[B] # NoInfo /\ ~last[B].allowed
        /\ Len(Get(requests, B)) = max_requests

\* The step is the /status handler run by task.
StatusStep(task) == pc[task] = "idle" /\ pc'[task] = "sent"

\* C5 (peek non-mutation): a status query appends nothing to any stored
\* list and changes the result of no later is_allowed call, and a second
\* query at the same instant reports the same requests_made.
C5_PeekNonMutation ==
    [][\A task \in Tasks :
          StatusStep(task) =>
            /\ \A k \in Keys : View(requests', k) = View(requests, k)
            /\ LET f == frame'[task] IN
               status_info(Get(requests', f.client_ip), f.current_time).requests_made
                    = f.response.rate_limit.requests_made]_vars

\* C5 witness: a status query answered for a key with live and expired
\* stored entries.
C5_Witness ==
    \E task \in Tasks :
        /\ pc[task] = "sent"
        /\ frame[task].response.route = "/status"
        /\ frame[task].response.rate_limit.requests_made > 0
        /\ frame[task].response.rate_limit.requests_made
                < Len(Get(requests, frame[task].client_ip))

\* The task holds a result of is_allowed.
HasInfo(task) == pc[task] \in {"endpoint", "raised", "sent"}
                    /\ frame[task].rate_info # NoInfo

\* C6 (retry-after floor): a denied result carries an integer
\* retry_after >= 1, an admitted result carries None.
C6_RetryAfter ==
    \A task \in Tasks :
        HasInfo(task) =>
            LET info == frame[task].rate_info IN
            IF info.allowed
            THEN info.retry_after = None
            ELSE /\ Len(info.retry_after) = 1
                 /\ info.retry_after[1] \in Int
                 /\ info.retry_after[1] >= 1

\* C6 witness: a denial one tick before the oldest entry expires, where
\* the truncated difference is 0 and the floor gives 1.
C6_Witness ==
    \E task \in Tasks :
        /\ pc[task] = "raised"
        /\ min(frame[task].request_times) + Window - frame[task].current_time = 1
        /\ frame[task].rate_info.retry_after = Some(1)

\* C7 (remaining quota): a denied result has requests_remaining = 0; an
\* admitted result that follows an admitted one of the same key, no stored
\* entry having expired, has one less requests_remaining; at time 0 the
\* i-th admitted call of a key returns max_requests - i, and the call after
\* max_requests admissions is denied.
C7_Remaining ==
    [][\A task \in Tasks :
          pc[task] = "decide" /\ pc'[task] \in {"endpoint", "raised"} =>
            LET f == frame[task]
                k == f.client_ip
                info == frame'[task].rate_info
                no_expiry == \A i \in DOMAIN f.request_times :
                                f.request_times[i] > f.current_time - Window
            IN  /\ ~info.allowed => info.requests_remaining = 0
                /\ info.allowed /\ last[k] # NoInfo /\ last[k].allowed /\ no_expiry
                    => info.requests_remaining = last[k].requests_remaining - 1
                /\ info.allowed /\ f.current_time = 0
                    => info.requests_remaining
                            = max_requests - Count(admitted'[k], 0)
                /\ f.current_time = 0 /\ Count(admitted[k], 0) = max_requests
                    => ~info.allowed]_vars

\* C7 witness: Scenario A, the sixth call at time 0 is denied after five
\* admitted ones, the last of which returned requests_remaining = 0.
C7_Witness ==
    \E task \in Tasks :
        /\ pc[task] = "raised"
        /\ frame[task].current_time = 0
        /\ frame[task].request_times = Repeat(0, max_requests)
        /\ frame[task].rate_info.requests_remaining = 0

\* The entries of seq inside the window that ends at t.
Live(seq, t) == {i \in DOMAIN seq : seq[i] > t - Window}

\* C8 (no double admit): between a call's capacity check and its append no
\* other call of the same key runs, so the count a call checked is still
\* the length of the stored list when it appends; no stored list holds
\* more than max_requests live timestamps, and no more than max_requests
\* calls of a key are admitted at one instant.
C8_NoDoubleAdmit ==
    /\ \A task \in Tasks :
            pc[task] = "decide" =>
                /\ frame[task].current_request_count
                        = Len(Get(requests, frame[task].client_ip))
                /\ \A other \in Tasks \ {task} :
                        pc[other] = "decide" =>
                            frame[other].client_ip # frame[task].client_ip
    /\ \A k \in Keys :
            /\ Cardinality(Live(Get(requests, k), now)) <= max_requests
            /\ Count(admitted[k], now) <= max_requests

\* C8 witness: a call has checked the count with one slot free and not yet
\* appended, while the other handler is held off by the event loop.
C8_Witness ==
    \E task \in Tasks, other \in Tasks :
        /\ other # task
        /\ pc[task] = "decide"
        /\ frame[task].current_request_count = max_requests - 1
        /\ pc[other] = "idle" /\ ~may_run(other)

\* C9 (total operation): no call ends in an error; every key, the empty
\* one included, gets a defined result from is_allowed and from the status
\* query in every state.
C9_Total ==
    /\ \A task \in Tasks :
            /\ pc[task] # "error"
            /\ ~raised_error(frame[task].rate_info)
            /\ pc[task] = "sent" => frame[task].response.status \in {200, 429}
    /\ \A k \in Keys :
            /\ ~raised_error(is_allowed(requests, k, now).info)
            /\ status_info(Get(requests, k), now).requests_made \in Nat

\* C9 witness: the empty key is denied (min is taken over its non-empty
\* list) while the other key was never seen.
C9_Witness ==
    \E task \in Tasks :
        /\ pc[task] = "raised"
        /\ frame[task].client_ip = ""
        /\ frame[task].rate_info.requests_made = max_requests
        /\ DOMAIN requests = {""}

\* The task holds the response of a status query.
Peeked(task) == pc[task] = "sent" /\ frame[task].response.route = "/status"

\* The oldest entry of seq inside the window that ends at t.
Oldest(seq, t) ==
    LET live == {seq[i] : i \in Live(seq, t)}
    IN  CHOOSE m \in live : \A x \in live : m <= x

\* s whole seconds are x ticks truncated to whole seconds (x >= 0).
IsTrunc(s, x) == Res * s <= x /\ x < Res * (s + 1)

\* C10 as stated: the status query returns requests_made = n,
\* requests_remaining = max(0, max_requests - n), reset_time equal to the
\* oldest live timestamp + window (t + window when n = 0), and
\* window_resets_in = max(0, reset_time - t).
C10_Original ==
    \A task \in Tasks :
        Peeked(task) =>
            LET f == frame[task]
                r == f.response.rate_limit
                n == Cardinality(Live(f.request_times, f.current_time))
            IN  /\ r.requests_made = n
                /\ r.requests_remaining = max(0, max_requests - n)
                /\ Res * r.reset_time =
                        (IF n > 0 THEN Oldest(f.request_times, f.current_time)
                                  ELSE f.current_time) + Window
                /\ Res * r.window_resets_in
                        = max(0, Res * r.reset_time - f.current_time)

\* C10 (peek result, amended): the status query returns requests_made = n,
\* requests_remaining = max(0, max_requests - n), reset_time = the oldest
\* live timestamp + window (t + window when n = 0) truncated to whole
\* seconds, and window_resets_in = max(0, reset_time - t truncated to whole
\* seconds).
C10_PeekResult ==
    \A task \in Tasks :
        Peeked(task) =>
            LET f == frame[task]
                r == f.response.rate_limit
                n == Cardinality(Live(f.request_times, f.current_time))
            IN  /\ r.requests_made = n
                /\ r.requests_remaining = max(0, max_requests - n)
                /\ IsTrunc(r.reset_time,
                        (IF n > 0 THEN Oldest(f.request_times, f.current_time)
                                  ELSE f.current_time) + Window)
                /\ \E s \in 0..r.reset_time + time_window :
                        /\ IsTrunc(s, f.current_time)
                        /\ r.window_resets_in = max(0, r.reset_time - s)

\* C10 witness: a status query for a key with expired entries and an
\* oldest live one recorded between whole seconds.
C10_Witness ==
    \E task \in Tasks :
        /\ Peeked(task)
        /\ Live(frame[task].request_times, frame[task].current_time)
                \notin {{}, DOMAIN frame[task].request_times}
        /\ Oldest(frame[task].request_times, frame[task].current_time) % Res # 0

\* The task ran is_allowed to its end and has not yet gone idle.
Evaluated(task) ==
    \/ Returned(task)
    \/ pc[task] = "sent" /\ frame[task].response.route = "/protected"

\* No entry stored for the task's key is older than the window that ends
\* at the instant of the task's call.
NoStale(task) ==
    LET stored == Get(requests, frame[task].client_ip)
    IN  \A i \in DOMAIN stored : stored[i] > frame[task].current_time - Window

\* C11 as stated: at the end of an is_allowed call and of a status query
\* made at time t, every stored timestamp of the key is > t - window.
C11_Original ==
    \A task \in Tasks : Evaluated(task) \/ Peeked(task) => NoStale(task)

\* C11 (no stale entries, amended): at the end of an is_allowed call made
\* at time t every stored timestamp of the key is > t - window; a status
\* query filters a local copy only and leaves the stored list as it was,
\* expired entries included.
C11_NoStale ==
    \A task \in Tasks :
        /\ Evaluated(task) => NoStale(task)
        /\ Peeked(task) =>
                Get(requests, frame[task].client_ip) = frame[task].request_times

\* C11 witness: an is_allowed call that found expired entries and left
\* none of them.
C11_Witness ==
    \E task \in Tasks :
        /\ Returned(task)
        /\ \E i \in DOMAIN frame[task].request_times :
                frame[task].request_times[i]
                    <= frame[task].current_time - Window
        /\ Get(requests, frame[task].client_ip) # <<>>
        /\ NoStale(task)

\* C12 (bounded log): whatever the clock does, set-backs included, no
\* stored list is longer than max_requests.
C12_BoundedLog ==
    \A k \in Keys : Len(Get(requests, k)) <= max_requests

\* C12 witness: after a set-back of the clock a call is denied on a full
\* list that holds timestamps later than the call.
C12_Witness ==
    \E task \in Tasks :
        /\ pc[task] = "raised"
        /\ Len(Get(requests, frame[task].client_ip)) = max_requests
        /\ \E i \in DOMAIN frame[task].request_times :
                frame[task].request_times[i] > frame[task].current_time

\* seq is in non-decreasing order.
Sorted(seq) == \A i, j \in DOMAIN seq : i < j => seq[i] <= seq[j]

\* C15 as stated: in every reachable state every stored list is in
\* non-decreasing order.
C15_Original ==
    \A k \in Keys : Sorted(Get(requests, k))

\* C15 (chronological order, amended): a step taken while the clock is not
\* behind any stored timestamp keeps every list that was in non-decreasing
\* order in non-decreasing order, and the oldest entry of such a list is
\* its first element.
C15_Chronological ==
    [][\A k \in Keys :
          LET seq == Get(requests, k) IN
          Sorted(seq) /\ (\A i \in DOMAIN seq : seq[i] <= now)
            => /\ Sorted(Get(requests', k))
               /\ seq # <<>> => min(seq) = seq[1]]_vars

\* C15 witness: a list in order that holds different timestamps, the clock
\* not behind them, just extended by an admitted request.
C15_Witness ==
    \E task \in Tasks :
        LET seq == Get(requests, frame[task].client_ip) IN
        /\ pc[task] = "endpoint"
        /\ Len(seq) >= 3
        /\ Sorted(seq) /\ seq[1] < seq[Len(seq)]
        /\ seq[Len(seq)] = frame[task].current_time

\* seq without the entries that are not inside the window that ends at t.
Pruned(seq, t) ==
    LET inside(x) == ~(x <= t - Window)
    IN  SelectSeq(seq, inside)

C14_Original ==
    \A task \in Tasks :
        Returned(task) =>
            LET f == frame[task]
                info == f.rate_info
                n == Cardinality(Live(f.request_times, f.current_time))
            IN  n < max_requests =>
                /\ info.allowed
                /\ info.requests_made = n + 1
                /\ info.requests_remaining = max_requests - (n + 1)
                /\ Res * info.reset_time = f.current_time + Window
                /\ info.retry_after = None
                /\ Get(requests, f.client_ip)
                        = Append(Pruned(f.request_times, f.current_time),
                                 f.current_time)

\* C14 (admitted evaluate, amended): a call at time t that finds
\* n < max_requests live entries appends t once to the pruned list and
\* returns allowed = true, requests_made = n + 1,
\* requests_remaining = max_requests - (n + 1), reset_time = t + window
\* truncated to whole seconds, retry_after = None.
C14_Admitted ==
    \A task \in Tasks :
        Returned(task) =>
            LET f == frame[task]
                info == f.rate_info
                n == Cardinality(Live(f.request_times, f.current_time))
            IN  n < max_requests =>
                /\ info.allowed
                /\ info.requests_made = n + 1
                /\ info.requests_remaining = max_requests - (n + 1)
                /\ IsTrunc(info.reset_time, f.current_time + Window)
                /\ info.retry_after = None
                /\ Get(requests, f.client_ip)
                        = Append(Pruned(f.request_times, f.current_time),
                                 f.current_time)

\* C14 witness: a request admitted between whole seconds after expired
\* entries were pruned and live ones kept.
C14_Witness ==
    \E task \in Tasks :
        LET f == frame[task] IN
        /\ pc[task] = "endpoint"
        /\ f.current_time % Res # 0
        /\ f.rate_info.requests_made > 1

\* C16 (retry-after is honoured): under a non-decreasing clock, the call
\* of a key that follows a denial with reset_time R is denied with the same
\* reset_time R when it is made before R, and admitted when it is made at R
\* or later.
C16_RetryHonoured ==
    [][\A task \in Tasks :
          pc[task] = "decide" /\ pc'[task] \in {"endpoint", "raised"} =>
            LET f == frame[task]
                k == f.client_ip
                info == frame'[task].rate_info
            IN  last[k] # NoInfo /\ ~last[k].allowed =>
                    IF f.current_time < Res * last[k].reset_time
                    THEN ~info.allowed /\ info.reset_time = last[k].reset_time
                    ELSE info.allowed]_vars

\* C17 (peek agrees with evaluate): in every state, for every key and
\* every later instant t, the status query reports requests_remaining > 0
\* exactly when is_allowed at t would admit; on denial both report the same
\* requests_made and reset_time; on admission is_allowed reports one more
\* requests_made than the status query.
C17_PeekAgrees ==
    \A k \in Keys, t \in Later :
        LET peek == status_info(Get(requests, k), t)
            evaluate == is_allowed(requests, k, t).info
        IN  /\ peek.requests_remaining > 0 <=> evaluate.allowed
            /\ ~evaluate.allowed =>
                    /\ peek.requests_made = evaluate.requests_made
                    /\ peek.reset_time = evaluate.reset_time
            /\ evaluate.allowed =>
                    evaluate.requests_made = peek.requests_made + 1

\* C17 witness: a status query answered from a stored list that still
\* holds expired entries, which is_allowed would prune before it admits.
C17_Witness ==
    \E task \in Tasks :
        LET f == frame[task]
            stored == Get(requests, f.client_ip)
        IN  /\ Peeked(task)
            /\ \E i \in DOMAIN stored : stored[i] <= f.current_time - Window
            /\ f.response.rate_limit.requests_made >= 1
            /\ is_allowed(requests, f.client_ip, f.current_time).info.requests_made
                    = f.response.rate_limit.requests_made + 1

\* The step is task building the response of a /protected request.
Responds(task) ==
    /\ pc[task] # "sent" /\ pc'[task] = "sent"
    /\ frame'[task].response.route = "/protected"

\* C18 (HTTP gate): a /protected request runs is_allowed once, for its
\* client's key, before anything is answered; the endpoint body runs only on
\* allowed = true and answers 200 with that result; on allowed = false the
\* answer is 429 with max_requests, requests_remaining, reset_time and
\* retry_after of that denial, and no slot is consumed.
C18_Gate ==
    [][\A task \in Tasks :
          /\ pc[task] = "decide" /\ pc'[task] # "decide" =>
                LET info == frame'[task].rate_info IN
                /\ pc'[task] = (IF info.allowed THEN "endpoint" ELSE "raised")
                /\ frame'[task].client_ip = frame[task].client_ip
          /\ Responds(task) =>
                LET f == frame[task]
                    info == f.rate_info
                    resp == frame'[task].response
                IN  /\ Returned(task)
                    /\ requests' = requests /\ admitted' = admitted
                    /\ last' = last
                    /\ resp.client_ip = f.client_ip
                    /\ resp.rate_limit_info = info
                    /\ resp.status = (IF info.allowed THEN 200 ELSE 429)
                    /\ resp.status = 429 =>
                            /\ resp.headers.limit = max_requests
                            /\ resp.headers.remaining = info.requests_remaining
                            /\ resp.headers.reset = info.reset_time
                            /\ resp.headers.retry_after = info.retry_after
                            /\ Get(requests', f.client_ip)
                                    = Pruned(f.request_times, f.current_time)]_vars

\* C18 witness: a 429 response to a request that found the list full and
\* left it as long as it was.
C18_Witness ==
    \E task \in Tasks :
        LET f == frame[task] IN
        /\ pc[task] = "sent"
        /\ f.response.status = 429
        /\ f.response.headers.remaining = 0
        /\ f.response.headers.retry_after = f.rate_info.retry_after
        /\ Len(Get(requests, f.client_ip)) = max_requests

====
